---- MODULE Spec2Model ----
(***************************************************************************)
(* media-monkey: pipeline/video_builder.py, build_video and its helpers.   *)
(*                                                                         *)
(* One call of build_video is modelled as a state machine whose program    *)
(* counter pc walks the statements of the function.  Times are kept in     *)
(* milliseconds: pydub's len(audio) and pysrt's ordinal are integral       *)
(* milliseconds, and the code divides both by 1000.0.  A frame time        *)
(* t = frame_idx / VIDEO_FPS is the rational frame_idx * 1000 / VIDEO_FPS  *)
(* milliseconds; comparisons with it are cross-multiplied.  The frame      *)
(* rates drawn by Init are those for which the double product              *)
(* target_dur * VIDEO_FPS truncates to the same integer as the exact       *)
(* product for every duration in 0..90000 ms.                              *)
(*                                                                         *)
(* Four specifications share the definitions:                              *)
(*   Spec          build_video over small inputs of every kind;            *)
(*   SpecTimeline  build_video at 30 frames per second, up to 300 frames;  *)
(*   SpecPipes     build_video and an encoder that fills its stderr pipe,  *)
(*                 under weak fairness of build_video's statements;        *)
(*   SpecGeometry  _smoothstep, _resize_for_ken_burns and _apply_ken_burns *)
(*                 called on their own.                                    *)
(***************************************************************************)
EXTENDS Integers, Sequences, FiniteSets, TLC

VARIABLES
    VIDEO_FPS,          \* config.py: frames per second
    MAX_DURATION,       \* config.py: cap on the total duration, seconds
    scene_images,       \* argument: the image assets, TRUE = loadable
    background_clips,   \* argument: the clip assets, TRUE = a frame can be extracted
    voiceover_ms,       \* decoded duration of the narration file, milliseconds
    music,              \* argument background_music_path: "none", "missing", "present"
    srt,                \* argument captions_srt_path: "none", "missing", "exists"
    srt_cues,           \* the cues of the caption file, in file order
    ffmpeg_installed,   \* whether shutil.which or imageio_ffmpeg supplies an encoder
    rng,                \* the positions random.choice will pick, in the order of its calls
    PIPE_BUF,           \* what the pipe of the encoder's stderr holds, in diagnostic lines
    diag_per_frame,     \* the lines the encoder writes to stderr for each frame it reads
    diag_emitted,       \* the lines written to that pipe, or being written, none read yet
    effects,            \* the Ken Burns effect of each prepared visual
    call,               \* a call of a geometry helper: the function and its arguments
    ret,                \* << >> until that call has run, then << what it returned >>
    pc,                 \* position in build_video
    target_dur,         \* milliseconds
    kb_frames,          \* the prepared visuals, each the position of its asset
    captions,           \* parsed cues
    audio_path,         \* "unset", "voiceover" or "mixed"
    mixed_exists,       \* whether mixed_audio.aac is on disk
    voiceover_exists,   \* whether the narration file is on disk
    total_frames,
    n_scenes,
    proc,               \* the encoder process: "none", "running", "exited"
    stdin_closed,       \* whether proc.stdin has been closed by build_video
    enc_input_open,     \* whether the encoder still reads its end of the pipe
    write_error,        \* the exception the failed frame write raised, "none" if none did
    mix_rc,             \* exit code of the external mix, -1 if it was not run
    frame_idx,
    written,            \* the frames written to proc.stdin, in order
    pending,            \* the exception in flight through the finally block
    returncode,         \* proc.returncode: -1 until the process is waited for
    stderr,             \* what communicate() captured
    result              \* how build_video ended

vars == << VIDEO_FPS, MAX_DURATION, scene_images, background_clips, voiceover_ms,
           music, srt, srt_cues, pc, target_dur, kb_frames, captions, audio_path,
           mixed_exists, voiceover_exists, total_frames, n_scenes, proc,
           stdin_closed, enc_input_open, write_error, mix_rc, frame_idx, written,
           pending, returncode, stderr, result, ffmpeg_installed, rng, effects,
           call, ret, PIPE_BUF, diag_per_frame, diag_emitted >>

inputs == << VIDEO_FPS, MAX_DURATION, scene_images, background_clips, voiceover_ms,
             music, srt, srt_cues, ffmpeg_installed, rng, PIPE_BUF, diag_per_frame >>

locals == << pc, target_dur, kb_frames, captions, audio_path, mixed_exists,
             voiceover_exists, total_frames, n_scenes, proc, stdin_closed,
             enc_input_open, write_error, mix_rc, frame_idx, written, pending,
             returncode, stderr, result, effects, diag_emitted >>

(***************************************************************************)
(* Bounds of the model and the sets the inputs are drawn from.             *)
(***************************************************************************)
MaxAssets == 3
MaxCues == 2
MaxFrames == 6
ProgressDen == 4
MaxSlack == 3
MaxPipe == 2

FpsValues == {2, 30}
MaxDurationValues == {2, 59}
VoiceoverMs == {0, 50, 1990, 3000, 90000}
ExitCodes == {0, 1}
Diagnostics == {"", "Conversion failed!"}

Min(a, b) == IF a <= b THEN a ELSE b

SeqsUpTo(S, n) == UNION {[1..k -> S] : k \in 0..n}

\* Two overlapping cue windows (ms): with 2 frames per second a frame falls on each
\* start and each end.
CueWindows == {[start |-> 0, end |-> 1000], [start |-> 500, end |-> 2000]}

\* What random.choice returns over one run, as positions in KB_EFFECTS: the stream
\* that starts at position r + 1 and steps through the list.
Stream(r) == [i \in 1..(2 * MaxAssets) |-> ((r + i - 1) % 8) + 1]

\* No geometry helper is being called.
NoCall == [fn |-> "none"]

(***************************************************************************)
(* build_video, setup.                                                     *)
(***************************************************************************)
\* Python's round(): to the nearest integer, a tie to the even one.
round_half_even(num, den) ==
    LET q == num \div den
        r == num % den
    IN  IF 2 * r < den THEN q
        ELSE IF 2 * r > den THEN q + 1
        ELSE IF q % 2 = 0 THEN q ELSE q + 1

\* The cap forgotten.
target_dur_uncapped(audio_ms, max_duration) == audio_ms

target_dur_of(audio_ms, max_duration) == Min(audio_ms, max_duration * 1000)

\* round() in place of int().
total_frames_rounded(dur_ms, fps) == round_half_even(dur_ms * fps, 1000)

total_frames_of(dur_ms, fps) == (dur_ms * fps) \div 1000

\* The loop left at the first asset that fails.
RECURSIVE survivors_until_failure(_, _)
survivors_until_failure(paths, i) ==
    IF i > Len(paths) \/ ~paths[i] THEN << >>
    ELSE << i >> \o survivors_until_failure(paths, i + 1)

RECURSIVE survivors(_, _)
survivors(paths, i) ==
    IF i > Len(paths) THEN << >>
    ELSE (IF paths[i] THEN << i >> ELSE << >>) \o survivors(paths, i + 1)

_load_images_for_kb(paths) == survivors(paths, 1)

_extract_clip_frames_for_kb(clip_paths) == survivors(clip_paths, 1)

_parse_srt(cues) ==
    [i \in 1..Len(cues) |-> [start |-> cues[i].start, end |-> cues[i].end, text |-> i]]

(***************************************************************************)
(* Ratios and the easing curve, lines 36-39.  A ratio is the pair          *)
(* << numerator, denominator >> with a positive denominator.               *)
(***************************************************************************)
Max(a, b) == IF a >= b THEN a ELSE b

RECURSIVE GCD(_, _)
GCD(a, b) == IF b = 0 THEN a ELSE GCD(b, a % b)

lowest(r) == LET g == GCD(r[1], r[2]) IN << r[1] \div g, r[2] \div g >>

\* r <= q, by whole parts and then the reciprocals of the fractional parts, so that no
\* product is formed.
RECURSIVE Leq(_, _)
Leq(r, q) ==
    LET wr == r[1] \div r[2]
        wq == q[1] \div q[2]
        fr == r[1] % r[2]
        fq == q[1] % q[2]
    IN  IF wr # wq THEN wr < wq
        ELSE IF fr = 0 THEN TRUE
        ELSE IF fq = 0 THEN FALSE
        ELSE Leq(<< q[2], fq >>, << r[2], fr >>)

Zero == << 0, 1 >>

One == << 1, 1 >>

Half == << 1, 2 >>

Same(r, q) == Leq(r, q) /\ Leq(q, r)

\* max(0.0, min(1.0, x))
clamp01(x) == << Max(0, Min(x[1], x[2])), x[2] >>

\* The clamp forgotten.
_smoothstep_unclamped(x) ==
    LET t == lowest(x)
    IN  << t[1] * t[1] * (3 * t[2] - 2 * t[1]), t[2] * t[2] * t[2] >>

_smoothstep(x) ==
    LET t == lowest(clamp01(x))
    IN  << t[1] * t[1] * (3 * t[2] - 2 * t[1]), t[2] * t[2] * t[2] >>

(***************************************************************************)
(* Ken Burns engine, lines 112-208.  Sizes are << width, height >>, a crop *)
(* rectangle is << cx, cy, cw, ch >>.  The eased progress t is the ratio   *)
(* a / b; every scale is a ratio too, and int(len * scale) is the floor of *)
(* the exact product.  The double product of the code truncates to the     *)
(* same integer for every call drawn by InitGeometry.  Where the exact     *)
(* product is an integer the double one can fall an ulp short and int()    *)
(* give one less: on the grid k/5, zoom_out_pan_left at progress 4/5 on    *)
(* the 1350 x 2400 canvas has cx = 12 where the exact offset is 13.        *)
(***************************************************************************)
\* as the ratio 5/4
KB_SCALE == << 5, 4 >>

\* The size of the canvas: (int(VIDEO_WIDTH * KB_SCALE), int(VIDEO_HEIGHT * KB_SCALE)).
_resize_for_ken_burns(viewport) ==
    << (viewport[1] * KB_SCALE[1]) \div KB_SCALE[2],
       (viewport[2] * KB_SCALE[1]) \div KB_SCALE[2] >>

\* int(len * scale)
scaled(len, scale) == (len * scale[1]) \div scale[2]

\* 1.0 - t * (1.0 - vw / iw)
zoom_in_scale(a, b, iw, vw) == << b * iw - a * (iw - vw), b * iw >>

\* zoom_out starting from the full image as zoom_in does.
zoom_out_scale_from_full(a, b, iw, vw) == << b * iw - a * (iw - vw), b * iw >>

\* (vw / iw) + t * (1.0 - vw / iw)
zoom_out_scale(a, b, iw, vw) == << b * vw + a * (iw - vw), b * iw >>

\* 1.0 - t * (1.0 - vw / iw) * 0.6
zoom_in_pan_scale(a, b, iw, vw) == << 5 * b * iw - 3 * a * (iw - vw), 5 * b * iw >>

\* (vw / iw) + t * (1.0 - vw / iw) * 0.6
zoom_out_pan_scale(a, b, iw, vw) == << 5 * b * vw + 3 * a * (iw - vw), 5 * b * iw >>

\* Lines 144-197: the rectangle of the effect before it is clamped.
\* The slide over half of the slack only.
pan_offset_half(max_d, num, den) == (max_d * num) \div (2 * den)

\* int(max_dx * t) and int(max_dx * (1.0 - t)), t or 1 - t being num / den.
pan_offset(max_d, num, den) == (max_d * num) \div den

effect_rect(img, effect, progress, viewport) ==
    LET t == lowest(_smoothstep(progress))
        a == t[1]
        b == t[2]
        iw == img[1]
        ih == img[2]
        vw == viewport[1]
        vh == viewport[2]
        max_dx == iw - vw
        max_dy == ih - vh
        centred(cw, ch) == << (iw - cw) \div 2, (ih - ch) \div 2, cw, ch >>
        zoomed(scale) == centred(scaled(iw, scale), scaled(ih, scale))
        shifted(scale, num) ==
            LET cw == scaled(iw, scale)
                ch == scaled(ih, scale)
            IN  << ((iw - cw) * num) \div b, (ih - ch) \div 2, cw, ch >>
    IN  CASE effect = "zoom_in" -> zoomed(zoom_in_scale(a, b, iw, vw))
          [] effect = "zoom_out" -> zoomed(zoom_out_scale(a, b, iw, vw))
          [] effect = "pan_left" -> << pan_offset(max_dx, b - a, b), max_dy \div 2, vw, vh >>
          [] effect = "pan_right" -> << pan_offset(max_dx, a, b), max_dy \div 2, vw, vh >>
          [] effect = "pan_up" -> << max_dx \div 2, pan_offset(max_dy, b - a, b), vw, vh >>
          [] effect = "pan_down" -> << max_dx \div 2, pan_offset(max_dy, a, b), vw, vh >>
          [] effect = "zoom_in_pan_right" -> shifted(zoom_in_pan_scale(a, b, iw, vw), a)
          [] effect = "zoom_out_pan_left" -> shifted(zoom_out_pan_scale(a, b, iw, vw), b - a)
          [] OTHER -> << max_dx \div 2, max_dy \div 2, vw, vh >>

\* The clamps forgotten.
clamp_to_image_off(rect, img) == rect

\* Lines 200-203.
clamp_to_image(rect, img) ==
    LET cw == Max(1, Min(rect[3], img[1]))
        ch == Max(1, Min(rect[4], img[2]))
    IN  << Max(0, Min(rect[1], img[1] - cw)), Max(0, Min(rect[2], img[2] - ch)), cw, ch >>

\* Lines 205-208: the size of the frame returned.
cropped_size(rect, viewport) ==
    IF << rect[3], rect[4] >> # viewport THEN viewport ELSE << rect[3], rect[4] >>

_apply_ken_burns(img, effect, progress, viewport) ==
    LET rect == clamp_to_image(effect_rect(img, effect, progress, viewport), img)
    IN  [crop |-> rect, size |-> cropped_size(rect, viewport)]

(***************************************************************************)
(* Caption overlay.  t is frame_idx / fps; a cue time c (ms) satisfies     *)
(* c/1000 <= t exactly when c * fps <= frame_idx * 1000.                   *)
(***************************************************************************)
\* The end of the window taken as inclusive.
cue_active_end_inclusive(c, idx, fps) ==
    c.start * fps <= idx * 1000 /\ idx * 1000 <= c.end * fps

cue_active(c, idx, fps) == c.start * fps <= idx * 1000 /\ idx * 1000 < c.end * fps

RECURSIVE active_cues(_, _, _, _)
active_cues(caps, i, idx, fps) ==
    IF i > Len(caps) THEN << >>
    ELSE (IF cue_active(caps[i], idx, fps) THEN << caps[i] >> ELSE << >>)
         \o active_cues(caps, i + 1, idx, fps)

RECURSIVE paste_all(_, _, _)
paste_all(frame, active, i) ==
    IF i > Len(active) THEN frame
    ELSE paste_all([frame EXCEPT !.overlays = Append(@, active[i].text)], active, i + 1)

\* Every cue pasted, the filter on the frame time forgotten.
_composite_caption_unfiltered(base, caps, idx, fps) == paste_all(base, caps, 1)

_composite_caption(base, caps, idx, fps) ==
    LET active == active_cues(caps, 1, idx, fps)
    IN  IF active = << >> THEN base ELSE paste_all(base, active, 1)

(***************************************************************************)
(* Scene timeline of the render loop, lines 381-407.  With a total         *)
(* duration of dur ms, n scenes and fps frames per second every time of    *)
(* the loop is a whole number of ticks of 1/(1000 * n * fps) second:       *)
(*     t = idx / fps            = idx * 1000 * n  ticks                    *)
(*     dur_per_scene = dur / n  = dur * fps       ticks                    *)
(*     CROSSFADE_DURATION       = 600 * n * fps   ticks                    *)
(* A ratio is the pair << numerator, denominator >>, denominator > 0.      *)
(***************************************************************************)
KB_EFFECTS == << "zoom_in", "zoom_out", "pan_left", "pan_right", "pan_up", "pan_down",
                 "zoom_in_pan_right", "zoom_out_pan_left" >>

\* milliseconds
CROSSFADE_DURATION == 600

\* seq[i] of a Python list, i >= 0.
item(seq, i) == IF i + 1 \in DOMAIN seq THEN seq[i + 1] ELSE "IndexError"

t_ticks(idx, n) == idx * 1000 * n

dur_per_scene(dur, fps) == dur * fps

\* No crossfade window at all.
crossfade_ticks_none(n, fps) == 0

crossfade_ticks(n, fps) == CROSSFADE_DURATION * n * fps

\* << fps, dur, n, idx >> at which the double quotient t / dur_per_scene is an ulp
\* below the integer the exact quotient equals, so that int() yields one less: the
\* cases among fps 2 and 30, dur 50, 1000, 1100, 1990, 2000, 3000, 10000 ms, n <= 5,
\* and 30 fps, 680 ms, n = 6.
quotient_rounds_below ==
    {<< 30, 1000, 5, 18 >>, << 30, 1100, 3, 11 >>, << 30, 1100, 3, 22 >>,
     << 30, 680, 6, 17 >>}

\* Those of them at which the double difference scene_end - t is an ulp above zero;
\* at the others it is 0.0, as the exact difference is.
remainder_rounds_above ==
    {<< 30, 1000, 5, 18 >>, << 30, 1100, 3, 11 >>, << 30, 1100, 3, 22 >>}

\* << fps, dur, n, idx >> at which time_to_end is exactly CROSSFADE_DURATION and the
\* double difference scene_end - t falls an ulp below 0.6: the window is entered, with
\* a weight below 1e-30.  Same range of cases.
window_start_rounds_below ==
    {<< 30, 10000, 2, 132 >>, << 30, 10000, 4, 132 >>, << 30, 10000, 4, 207 >>,
     << 30, 10000, 5, 162 >>, << 30, 10000, 5, 222 >>}

\* round() in place of int().
scene_idx_rounded(idx, fps, dur, n) ==
    Min(round_half_even(t_ticks(idx, n), dur_per_scene(dur, fps)), n - 1)

\* min(int(t / dur_per_scene), n_scenes - 1)
scene_idx_of(idx, fps, dur, n) ==
    LET exact == t_ticks(idx, n) \div dur_per_scene(dur, fps)
        quotient == IF << fps, dur, n, idx >> \in quotient_rounds_below
                    THEN exact - 1 ELSE exact
    IN  Min(quotient, n - 1)

\* (t - scene_start) / dur_per_scene, clamped
scene_progress_of(idx, s, fps, dur, n) ==
    clamp01(<< t_ticks(idx, n) - s * dur_per_scene(dur, fps), dur_per_scene(dur, fps) >>)

\* scene_end - t
time_to_end(idx, s, fps, dur, n) == (s + 1) * dur_per_scene(dur, fps) - t_ticks(idx, n)

\* time_to_end > 0, as the doubles have it.
time_to_end_positive(idx, s, fps, dur, n) ==
    \/ time_to_end(idx, s, fps, dur, n) > 0
    \/ << fps, dur, n, idx >> \in remainder_rounds_above

next_idx_of(s) == s + 1

\* The test on next_idx forgotten.
in_crossfade_unbounded(idx, s, fps, dur, n) ==
    \/ time_to_end(idx, s, fps, dur, n) < crossfade_ticks(n, fps)
    \/ << fps, dur, n, idx >> \in window_start_rounds_below

\* next_idx < n_scenes and time_to_end < CROSSFADE_DURATION
in_crossfade(idx, s, fps, dur, n) ==
    /\ next_idx_of(s) < n
    /\ \/ time_to_end(idx, s, fps, dur, n) < crossfade_ticks(n, fps)
       \/ << fps, dur, n, idx >> \in window_start_rounds_below

\* The weight falling instead of rising.
alpha_falling(tte, cf) == _smoothstep(<< tte, cf >>)

\* _smoothstep(1.0 - time_to_end / CROSSFADE_DURATION)
alpha_of(tte, cf) == _smoothstep(<< cf - tte, cf >>)

\* (CROSSFADE_DURATION - time_to_end) / dur_per_scene, clamped
next_progress_of(tte, cf, dps) == clamp01(<< cf - tte, dps >>)

\* The frame before captions: the current scene under its effect at scene_progress,
\* blended inside a crossfade window with the next scene under its own effect.
composited(idx, fps, dur, n, effs) ==
    LET s == scene_idx_of(idx, fps, dur, n)
        tte == time_to_end(idx, s, fps, dur, n)
        cf == crossfade_ticks(n, fps)
        blend == in_crossfade(idx, s, fps, dur, n)
    IN  [idx |-> idx,
         scene |-> s,
         progress |-> scene_progress_of(idx, s, fps, dur, n),
         effect |-> item(effs, s),
         blended |-> blend,
         next |-> IF blend THEN next_idx_of(s) ELSE -1,
         alpha |-> IF blend THEN alpha_of(tte, cf) ELSE << 0, 1 >>,
         next_progress |-> IF blend THEN next_progress_of(tte, cf, dur_per_scene(dur, fps))
                           ELSE << 0, 1 >>,
         next_effect |-> IF blend THEN item(effs, next_idx_of(s)) ELSE "none",
         overlays |-> << >>]

render_frame(idx, caps, fps, dur, n, effs) ==
    LET frame == composited(idx, fps, dur, n, effs)
    IN  IF caps # << >> THEN _composite_caption(frame, caps, idx, fps) ELSE frame

(***************************************************************************)
(* Initial states: the arguments of one call and the configuration.        *)
(***************************************************************************)
\* build_video entered, nothing done yet.
Started ==
    /\ pc = "get_ffmpeg"
    /\ target_dur = 0
    /\ kb_frames = << >>
    /\ captions = << >>
    /\ audio_path = "unset"
    /\ mixed_exists = FALSE
    /\ voiceover_exists = TRUE
    /\ total_frames = 0
    /\ n_scenes = 0
    /\ proc = "none"
    /\ stdin_closed = FALSE
    /\ enc_input_open = FALSE
    /\ write_error = "none"
    /\ mix_rc = -1
    /\ frame_idx = 0
    /\ written = << >>
    /\ pending = "none"
    /\ returncode = -1
    /\ stderr = ""
    /\ result = [kind |-> "none", value |-> ""]
    /\ effects = << >>
    /\ diag_emitted = 0

\* An encoder whose diagnostics never fill the pipe of its stderr.
QuietEncoder ==
    /\ PIPE_BUF = MaxPipe
    /\ diag_per_frame = 0

Init ==
    /\ VIDEO_FPS \in FpsValues
    /\ MAX_DURATION \in MaxDurationValues
    /\ voiceover_ms \in VoiceoverMs
    /\ total_frames_of(target_dur_of(voiceover_ms, MAX_DURATION), VIDEO_FPS) <= MaxFrames
    /\ scene_images \in SeqsUpTo(BOOLEAN, MaxAssets)
    /\ background_clips \in SeqsUpTo(BOOLEAN, MaxAssets)
    \* main.py passes background_clips only when it has no scene image
    /\ scene_images = << >> \/ background_clips = << >>
    /\ music \in {"none", "missing", "present"}
    /\ srt \in {"none", "missing", "exists"}
    /\ srt_cues \in SeqsUpTo(CueWindows, MaxCues)
    /\ srt = "exists" \/ srt_cues = << >>
    /\ ffmpeg_installed \in BOOLEAN
    /\ rng = Stream(0)
    /\ QuietEncoder
    /\ Started
    /\ call = NoCall
    /\ ret = << >>

Raise(type, msg) == [kind |-> type, value |-> msg]

(***************************************************************************)
(* The statements of build_video.                                          *)
(***************************************************************************)
\* The failure put off: a path returned whether or not an encoder exists.
_get_ffmpeg_deferred(installed) == "audio_duration"

\* _get_ffmpeg: where build_video goes on, "done" when the RuntimeError leaves it.
_get_ffmpeg(installed) == IF installed THEN "audio_duration" ELSE "done"

GetFfmpeg ==
    /\ pc = "get_ffmpeg"
    /\ pc' = _get_ffmpeg(ffmpeg_installed)
    /\ result' = IF pc' = "done" THEN Raise("RuntimeError", "ffmpeg not found")
                 ELSE result
    /\ UNCHANGED << inputs, effects, call, ret, diag_emitted, target_dur, kb_frames, captions, audio_path, mixed_exists,
                    voiceover_exists, total_frames, n_scenes, proc, stdin_closed,
                    enc_input_open, write_error, mix_rc, frame_idx, written, pending,
                    returncode, stderr >>

AudioDuration ==
    /\ pc = "audio_duration"
    /\ target_dur' = target_dur_of(voiceover_ms, MAX_DURATION)
    /\ pc' = "visuals"
    /\ UNCHANGED << inputs, effects, call, ret, diag_emitted, kb_frames, captions, audio_path, mixed_exists,
                    voiceover_exists, total_frames, n_scenes, proc, stdin_closed,
                    enc_input_open, write_error, mix_rc, frame_idx, written, pending,
                    returncode, stderr, result >>

prepared_visuals(images, clips) ==
    IF images # << >> THEN _load_images_for_kb(images)
    ELSE _extract_clip_frames_for_kb(clips)

\* Neither test made: build_video goes on with whatever was prepared.
PrepareVisuals_unchecked ==
    /\ pc = "visuals"
    /\ kb_frames' = prepared_visuals(scene_images, background_clips)
    /\ pc' = "effects"
    /\ UNCHANGED << inputs, effects, call, ret, diag_emitted, target_dur, captions, audio_path, mixed_exists,
                    voiceover_exists, total_frames, n_scenes, proc, stdin_closed,
                    enc_input_open, write_error, mix_rc, frame_idx, written, pending,
                    returncode, stderr, result >>

PrepareVisuals ==
    /\ pc = "visuals"
    /\ IF scene_images = << >> /\ background_clips = << >>
       THEN /\ pc' = "done"
            /\ result' = Raise("ValueError", "No scene images or background clips provided")
            /\ kb_frames' = kb_frames
       ELSE LET frames == prepared_visuals(scene_images, background_clips)
            IN  /\ kb_frames' = frames
                /\ IF frames = << >>
                   THEN /\ pc' = "done"
                        /\ result' = Raise("ValueError", "Failed to prepare any visual frames")
                   ELSE /\ pc' = "effects"
                        /\ result' = result
    /\ UNCHANGED << inputs, effects, call, ret, diag_emitted, target_dur, captions, audio_path, mixed_exists,
                    voiceover_exists, total_frames, n_scenes, proc, stdin_closed,
                    enc_input_open, write_error, mix_rc, frame_idx, written, pending,
                    returncode, stderr >>

\* One effect drawn for the whole video.
effect_choices_single(frames, draws) == << KB_EFFECTS[draws[1]] >>

\* [random.choice(KB_EFFECTS) for _ in kb_frames]
effect_choices(frames, draws) == [i \in 1..Len(frames) |-> KB_EFFECTS[draws[i]]]

AssignEffects ==
    /\ pc = "effects"
    /\ effects' = effect_choices(kb_frames, rng)
    /\ pc' = "captions"
    /\ UNCHANGED << inputs, call, ret, diag_emitted, target_dur, kb_frames, captions, audio_path,
                    mixed_exists, voiceover_exists, total_frames, n_scenes, proc,
                    stdin_closed, enc_input_open, write_error, mix_rc, frame_idx,
                    written, pending, returncode, stderr, result >>

ParseCaptions ==
    /\ pc = "captions"
    /\ captions' = IF srt = "exists" THEN _parse_srt(srt_cues) ELSE << >>
    /\ pc' = "mix_audio"
    /\ UNCHANGED << inputs, effects, call, ret, diag_emitted, target_dur, kb_frames, audio_path, mixed_exists,
                    voiceover_exists, total_frames, n_scenes, proc, stdin_closed,
                    enc_input_open, write_error, mix_rc, frame_idx, written, pending,
                    returncode, stderr, result >>

\* The exit code of the mix not looked at.
_mix_audio_unchecked(music_state, rc) ==
    IF music_state # "present" THEN "voiceover" ELSE "mixed"

\* _mix_audio: the path returned, given the music argument and the exit code of the
\* external mix (run only when the music file exists).
_mix_audio(music_state, rc) ==
    IF music_state # "present" THEN "voiceover"
    ELSE IF rc # 0 THEN "voiceover"
    ELSE "mixed"

MixAudio ==
    /\ pc = "mix_audio"
    /\ IF music # "present"
       THEN /\ audio_path' = _mix_audio(music, -1)
            /\ UNCHANGED << mix_rc, mixed_exists >>
       ELSE \E rc \in ExitCodes, partial \in BOOLEAN :
               /\ mix_rc' = rc
               /\ audio_path' = _mix_audio(music, rc)
               \* a failed mix may leave a partial mixed_audio.aac behind
               /\ mixed_exists' = IF rc = 0 THEN TRUE ELSE partial
    /\ pc' = "setup"
    /\ UNCHANGED << inputs, effects, call, ret, diag_emitted, target_dur, kb_frames, captions, voiceover_exists,
                    total_frames, n_scenes, proc, stdin_closed, enc_input_open,
                    write_error, frame_idx, written, pending, returncode, stderr,
                    result >>

Setup ==
    /\ pc = "setup"
    /\ total_frames' = total_frames_of(target_dur, VIDEO_FPS)
    /\ n_scenes' = Len(kb_frames)
    /\ pc' = "popen"
    /\ UNCHANGED << inputs, effects, call, ret, diag_emitted, target_dur, kb_frames, captions, audio_path, mixed_exists,
                    voiceover_exists, proc, stdin_closed, enc_input_open, write_error,
                    mix_rc, frame_idx, written, pending, returncode, stderr, result >>

\* The encoder launched while the audio is still to be mixed.
Popen_before_mix ==
    /\ pc = "mix_audio"
    /\ proc = "none"
    /\ proc' = "running"
    /\ enc_input_open' = TRUE
    /\ frame_idx' = 0
    /\ pc' = pc
    /\ UNCHANGED << inputs, effects, call, ret, diag_emitted, target_dur, kb_frames, captions, audio_path, mixed_exists,
                    voiceover_exists, total_frames, n_scenes, stdin_closed, write_error,
                    mix_rc, written, pending, returncode, stderr, result >>

Popen ==
    /\ pc = "popen"
    /\ proc' = "running"
    /\ enc_input_open' = TRUE
    /\ frame_idx' = 0
    /\ pc' = "loop"
    /\ UNCHANGED << inputs, effects, call, ret, diag_emitted, target_dur, kb_frames, captions, audio_path, mixed_exists,
                    voiceover_exists, total_frames, n_scenes, stdin_closed, write_error,
                    mix_rc, written, pending, returncode, stderr, result >>

\* The encoder, a process of its own, stops reading its input (-shortest reached, or
\* it failed) while build_video still holds the pipe open.
\* The encoder writes its diagnostics to a pipe that build_video reads only after the
\* loop (line 428): once more has been emitted than the pipe holds, the encoder waits
\* in that write and does nothing else.
encoder_blocked(emitted, buf) == emitted > buf

EncoderClosesInput ==
    /\ proc = "running"
    /\ ~stdin_closed
    /\ enc_input_open
    /\ ~encoder_blocked(diag_emitted, PIPE_BUF)
    /\ enc_input_open' = FALSE
    /\ UNCHANGED << inputs, effects, call, ret, diag_emitted, pc, target_dur, kb_frames, captions, audio_path,
                    mixed_exists, voiceover_exists, total_frames, n_scenes, proc,
                    stdin_closed, write_error, mix_rc, frame_idx, written, pending,
                    returncode, stderr, result >>

\* range(total_frames - 1).
frame_range_short(n) == 0..(n - 2)

\* A frame skipped at every step.
next_frame_idx_skipping(i) == i + 2

\* except Exception: pass.
after_except_any(exc) == "none"

\* The frame indices the for statement iterates over, and the step of the iteration.
frame_range(n) == 0..(n - 1)

next_frame_idx(i) == i + 1

\* What the except clause lets through: BrokenPipeError is absorbed.
after_except(exc) == IF exc = "BrokenPipeError" THEN "none" ELSE exc

\* The outcomes of proc.stdin.write: EPIPE once the encoder has closed its input.
write_outcomes(input_open) == IF input_open THEN {"ok", "OSError"} ELSE {"BrokenPipeError"}

\* One pass of the loop body.  A frame is far larger than the pipe of the encoder's
\* stdin, so the write returns only when the encoder has read the frame, and waits as
\* long as the encoder is blocked; for each frame read the encoder emits its
\* diagnostics.
RenderFrame ==
    /\ pc = "loop"
    /\ frame_idx \in frame_range(total_frames)
    /\ ~encoder_blocked(diag_emitted, PIPE_BUF)
    /\ \E outcome \in write_outcomes(enc_input_open) :
          IF outcome = "ok"
          THEN /\ written' = Append(written, render_frame(frame_idx, captions, VIDEO_FPS,
                                                          target_dur, n_scenes, effects))
               /\ frame_idx' = next_frame_idx(frame_idx)
               /\ diag_emitted' = diag_emitted + diag_per_frame
               /\ UNCHANGED << pc, pending, write_error >>
          ELSE /\ write_error' = outcome
               /\ pending' = after_except(outcome)
               /\ pc' = "finally"
               /\ UNCHANGED << written, frame_idx, diag_emitted >>
    /\ UNCHANGED << inputs, effects, call, ret, target_dur, kb_frames, captions, audio_path, mixed_exists,
                    voiceover_exists, total_frames, n_scenes, proc, stdin_closed,
                    enc_input_open, mix_rc, returncode, stderr, result >>

LoopDone ==
    /\ pc = "loop"
    /\ frame_idx \notin frame_range(total_frames)
    /\ pc' = "finally"
    /\ UNCHANGED << inputs, effects, call, ret, diag_emitted, target_dur, kb_frames, captions, audio_path, mixed_exists,
                    voiceover_exists, total_frames, n_scenes, proc, stdin_closed,
                    enc_input_open, write_error, mix_rc, frame_idx, written, pending,
                    returncode, stderr, result >>

Finally ==
    /\ pc = "finally"
    /\ stdin_closed' = TRUE
    /\ IF pending = "none"
       THEN /\ pc' = "communicate"
            /\ result' = result
       ELSE /\ pc' = "done"
            /\ result' = Raise(pending, "write failed")
    /\ UNCHANGED << inputs, effects, call, ret, diag_emitted, target_dur, kb_frames, captions, audio_path, mixed_exists,
                    voiceover_exists, total_frames, n_scenes, proc, enc_input_open,
                    write_error, mix_rc, frame_idx, written, pending, returncode,
                    stderr >>

Communicate ==
    /\ pc = "communicate"
    /\ \E rc \in ExitCodes, diag \in Diagnostics :
          /\ returncode' = rc
          /\ stderr' = diag
    /\ proc' = "exited"
    /\ enc_input_open' = FALSE
    /\ pc' = "check"
    /\ UNCHANGED << inputs, effects, call, ret, diag_emitted, target_dur, kb_frames, captions, audio_path, mixed_exists,
                    voiceover_exists, total_frames, n_scenes, stdin_closed, write_error,
                    mix_rc, frame_idx, written, pending, result >>

\* The exit code not looked at.
finish_unchecked(rc, diag) == [kind |-> "return", value |-> "output_path"]

\* Lines 432-441: the exit-code test and what build_video ends with.
finish(rc, diag) ==
    IF rc # 0 THEN Raise("RuntimeError", diag)
    ELSE [kind |-> "return", value |-> "output_path"]

\* The audio file unlinked whichever it is.
cleanup_target_any(path) == path

\* Lines 438-439: the file the cleanup unlinks, "none" when it unlinks none.
cleanup_target(path) == IF path # "voiceover" THEN path ELSE "none"

Finish ==
    /\ pc = "check"
    /\ result' = finish(returncode, stderr)
    /\ LET unlinked == IF returncode = 0 THEN cleanup_target(audio_path) ELSE "none"
       IN  /\ mixed_exists' = IF unlinked = "mixed" THEN FALSE ELSE mixed_exists
           /\ voiceover_exists' = IF unlinked = "voiceover" THEN FALSE ELSE voiceover_exists
    /\ pc' = "done"
    /\ UNCHANGED << inputs, effects, call, ret, diag_emitted, target_dur, kb_frames, captions, audio_path,
                    total_frames, n_scenes, proc, stdin_closed,
                    enc_input_open, write_error, mix_rc, frame_idx, written, pending,
                    returncode, stderr >>

Next ==
    \/ GetFfmpeg
    \/ AudioDuration
    \/ PrepareVisuals
    \/ AssignEffects
    \/ ParseCaptions
    \/ MixAudio
    \/ Setup
    \/ Popen
    \/ EncoderClosesInput
    \/ RenderFrame
    \/ LoopDone
    \/ Finally
    \/ Communicate
    \/ Finish

Spec == Init /\ [][Next]_vars

(***************************************************************************)
(* The render loop at the default frame rate and cap, with one to          *)
(* MaxAssets loadable images, no captions and no music, through every      *)
(* effect: a 10 s narration (300 frames), and two short ones whose scenes  *)
(* are shorter than the crossfade window; and six images over a 0.68 s     *)
(* narration, scenes of 0.113 s.                                           *)
(***************************************************************************)
TimelineMs == {1000, 1100, 10000}

\* << narration (ms), number of images >>: very many short scenes.
ShortScenes == << 680, 6 >>

TimelineCases == (TimelineMs \X (1..MaxAssets)) \cup {ShortScenes}

InitTimeline ==
    /\ VIDEO_FPS = 30
    /\ MAX_DURATION = 59
    /\ \E c \in TimelineCases :
          /\ voiceover_ms = c[1]
          /\ scene_images = [i \in 1..c[2] |-> TRUE]
    /\ background_clips = << >>
    /\ music = "none"
    /\ srt = "none"
    /\ srt_cues = << >>
    /\ ffmpeg_installed = TRUE
    /\ rng \in {Stream(r) : r \in 0..7}
    /\ QuietEncoder
    /\ Started
    /\ call = NoCall
    /\ ret = << >>

SpecTimeline == InitTimeline /\ [][Next]_vars

(***************************************************************************)
(* The encoder and its two pipes: short renders of one or two images at 2  *)
(* frames per second, with an encoder that emits a line of diagnostics for *)
(* each frame or none, into a pipe that holds 1 to MaxPipe lines.          *)
(* build_video is one thread that runs on whenever its next statement can  *)
(* run, and the encoder reads a frame whenever it is not blocked; no       *)
(* failure and no early close is bound to happen.                          *)
(***************************************************************************)
InitPipes ==
    /\ VIDEO_FPS = 2
    /\ MAX_DURATION = 2
    /\ voiceover_ms \in VoiceoverMs
    /\ scene_images \in {<< TRUE >>, << TRUE, TRUE >>}
    /\ background_clips = << >>
    /\ music \in {"none", "present"}
    /\ srt = "none"
    /\ srt_cues = << >>
    /\ ffmpeg_installed = TRUE
    /\ rng = Stream(0)
    /\ PIPE_BUF \in 1..MaxPipe
    /\ diag_per_frame \in {0, 1}
    /\ Started
    /\ call = NoCall
    /\ ret = << >>

\* A statement of build_video that runs without a failure being injected: a frame
\* written, or the write ended by the encoder having closed its input.
Runs ==
    \/ GetFfmpeg
    \/ AudioDuration
    \/ PrepareVisuals
    \/ AssignEffects
    \/ ParseCaptions
    \/ MixAudio
    \/ Setup
    \/ Popen
    \/ RenderFrame /\ pending' = "none"
    \/ LoopDone
    \/ Finally
    \/ Communicate
    \/ Finish

SpecPipes == InitPipes /\ [][Next]_vars /\ WF_vars(Runs)

(***************************************************************************)
(* The geometry helpers on their own: a state holds one call, and the      *)
(* action of the helper runs it.                                           *)
(***************************************************************************)
\* VIDEO_WIDTH x VIDEO_HEIGHT: the default of config.py and other sizes.
Viewports == {<< 1080, 1920 >>, << 720, 1280 >>, << 8, 12 >>, << 3, 5 >>, << 1, 2 >>}

\* The images handed to _apply_ken_burns: the canvas _resize_for_ken_burns makes, and
\* any image at least as large as the viewport.
Canvases(viewport) ==
    {_resize_for_ken_burns(viewport)}
        \cup {<< viewport[1] + dx, viewport[2] + dy >> : dx, dy \in 0..MaxSlack}

ProgressGrid == {<< k, ProgressDen >> : k \in 0..ProgressDen}

\* From -1 to 2 in steps of 1 / (2 * ProgressDen): 0, 1/2 and 1 are among them.
EasingInputs == {<< k, 2 * ProgressDen >> : k \in (-2 * ProgressDen)..(4 * ProgressDen)}

GeometryCalls ==
    {[fn |-> "_smoothstep", x |-> x] : x \in EasingInputs}
        \cup {[fn |-> "_resize_for_ken_burns", viewport |-> v] : v \in Viewports}
        \cup UNION {{[fn |-> "_apply_ken_burns", img |-> c, effect |-> KB_EFFECTS[e],
                       progress |-> p, viewport |-> v] :
                         c \in Canvases(v), e \in DOMAIN KB_EFFECTS, p \in ProgressGrid} :
                     v \in Viewports}

InitGeometry ==
    /\ VIDEO_FPS = 30
    /\ MAX_DURATION = 59
    /\ scene_images = << >>
    /\ background_clips = << >>
    /\ voiceover_ms = 0
    /\ music = "none"
    /\ srt = "none"
    /\ srt_cues = << >>
    /\ ffmpeg_installed = TRUE
    /\ rng = Stream(0)
    /\ QuietEncoder
    /\ Started
    /\ call \in GeometryCalls
    /\ ret = << >>

Smoothstep ==
    /\ call.fn = "_smoothstep"
    /\ ret = << >>
    /\ ret' = << _smoothstep(call.x) >>
    /\ UNCHANGED << inputs, locals, call >>

ResizeForKenBurns ==
    /\ call.fn = "_resize_for_ken_burns"
    /\ ret = << >>
    /\ ret' = << _resize_for_ken_burns(call.viewport) >>
    /\ UNCHANGED << inputs, locals, call >>

ApplyKenBurns ==
    /\ call.fn = "_apply_ken_burns"
    /\ ret = << >>
    /\ ret' = << _apply_ken_burns(call.img, call.effect, call.progress, call.viewport) >>
    /\ UNCHANGED << inputs, locals, call >>

NextGeometry ==
    \/ Smoothstep
    \/ ResizeForKenBurns
    \/ ApplyKenBurns

SpecGeometry == InitGeometry /\ [][NextGeometry]_vars

(***************************************************************************)
(* Properties.                                                             *)
(***************************************************************************)
FfmpegFound == result # Raise("RuntimeError", "ffmpeg not found")
DurationKnown == pc \notin {"get_ffmpeg", "audio_duration"} /\ FfmpegFound
VisualsPrepared == pc \notin {"get_ffmpeg", "audio_duration", "visuals"} /\ FfmpegFound
EncoderLaunched == proc # "none"
AfterLoop == EncoderLaunched /\ pc \in {"finally", "communicate", "check", "done"}

\* Whether cue i of the parsed list covers the time of frame idx: start <= t < end.
Covers(i, idx) ==
    /\ captions[i].start * VIDEO_FPS <= idx * 1000
    /\ idx * 1000 < captions[i].end * VIDEO_FPS

\* C1: the total duration build_video renders is min(narration duration, cap), so it
\* never exceeds the cap.
C1_TotalDurationIsMin ==
    DurationKnown =>
        /\ target_dur <= MAX_DURATION * 1000
        /\ target_dur <= voiceover_ms
        /\ target_dur = voiceover_ms \/ target_dur = MAX_DURATION * 1000

C1_Witness ==
    /\ pc = "done"
    /\ result.kind = "return"
    /\ voiceover_ms = 90000
    /\ MAX_DURATION = 2
    /\ target_dur = 2000
    /\ Len(written) = total_frames

\* C2 as claimed: the frame count fixed at setup is round(D * fps).
C2_FrameCountIsRound ==
    EncoderLaunched => total_frames = round_half_even(target_dur * VIDEO_FPS, 1000)

\* C2, amended: the frame count fixed at setup is D * fps truncated to an integer,
\* the largest integer not above D * fps.
C2_FrameCountIsTruncation ==
    EncoderLaunched =>
        /\ total_frames * 1000 <= target_dur * VIDEO_FPS
        /\ target_dur * VIDEO_FPS < (total_frames + 1) * 1000

C2_Witness ==
    /\ pc = "done"
    /\ result.kind = "return"
    /\ (target_dur * VIDEO_FPS) % 1000 > 500
    /\ total_frames > 0
    /\ Len(written) = total_frames

\* C3 as claimed: once the render loop is over, the number of frames written is the
\* frame count computed at setup, never more and never fewer.
C3_WrittenIsFrameCount ==
    AfterLoop => Len(written) = total_frames

\* C3, amended: the loop never writes more frames than the frame count; it has written
\* exactly that many when it ends without a failed write, and fewer when a write
\* failed (the encoder closed its input early, or the write raised another error).
C3_NeverMoreFewerOnlyOnFailedWrite ==
    EncoderLaunched =>
        /\ Len(written) <= total_frames
        /\ AfterLoop /\ write_error = "none" => Len(written) = total_frames
        /\ AfterLoop /\ write_error # "none" => Len(written) < total_frames

C3_Witness ==
    /\ pc = "done"
    /\ write_error = "BrokenPipeError"
    /\ Len(written) > 0
    /\ Len(written) < total_frames
    /\ result.kind = "return"

\* C4: the frame indices written so far are 0, 1, ..., k-1 for some k <= frame count:
\* strictly increasing, none skipped, none repeated.
C4_WrittenInFrameOrder ==
    /\ EncoderLaunched => Len(written) <= total_frames
    /\ \A k \in 1..Len(written) : written[k].idx = k - 1

C4_Witness ==
    /\ pc = "loop"
    /\ Len(written) >= 3
    /\ Len(written) < total_frames

\* C5: build_video returns the output path only after the encoder exited with code 0;
\* when the encoder is waited for and exited non-zero, build_video raises an error
\* that carries the captured diagnostic output.
C5_ReturnOnlyOnExitZero ==
    /\ result.kind = "return" => proc = "exited" /\ returncode = 0
    /\ pc = "done" /\ proc = "exited" /\ returncode # 0 =>
           result = [kind |-> "RuntimeError", value |-> stderr]

C5_Witness ==
    /\ pc = "done"
    /\ write_error = "BrokenPipeError"
    /\ returncode = 1
    /\ stderr = "Conversion failed!"
    /\ result = [kind |-> "RuntimeError", value |-> "Conversion failed!"]

\* C6: after a write that failed because the encoder closed its input, no further
\* frame is written, no error is in flight, the stream is closed and the encoder is
\* waited for, and exit code 0 then makes the render succeed; a write that failed
\* otherwise is raised to the caller.
C6_EarlyCloseIsBenign ==
    /\ write_error = "BrokenPipeError" =>
           /\ pc \in {"finally", "communicate", "check", "done"}
           /\ pending = "none"
           /\ Len(written) = frame_idx
           /\ frame_idx < total_frames
           /\ pc # "finally" => stdin_closed
           /\ pc \in {"check", "done"} => proc = "exited"
           /\ pc = "done" => result.kind \in {"return", "RuntimeError"}
           /\ pc = "done" /\ returncode = 0 => result.kind = "return"
    /\ write_error = "OSError" =>
           /\ pending = "OSError"
           /\ pc \in {"finally", "done"}
           /\ pc = "done" => result.kind = "OSError" /\ proc = "running"

C6_Witness ==
    /\ pc = "done"
    /\ write_error = "BrokenPipeError"
    /\ stdin_closed
    /\ returncode = 0
    /\ Len(written) < total_frames
    /\ result = [kind |-> "return", value |-> "output_path"]

\* C7: the prepared visuals are exactly the usable assets of the list build_video
\* loads, in their original order, and build_video raises its ValueError if and only
\* if that list has no usable asset.
chosen_assets == IF scene_images # << >> THEN scene_images ELSE background_clips

C7_FailedAssetsSkipped ==
    VisualsPrepared =>
        LET usable == {i \in 1..Len(chosen_assets) : chosen_assets[i]}
        IN  /\ {kb_frames[k] : k \in 1..Len(kb_frames)} = usable
            /\ \A j, k \in 1..Len(kb_frames) : j < k => kb_frames[j] < kb_frames[k]
            /\ result.kind = "ValueError" <=> usable = {}
            /\ usable # {} /\ pc = "done" => EncoderLaunched

C7_Witness ==
    /\ pc = "done"
    /\ result.kind = "return"
    /\ background_clips = << TRUE, FALSE, TRUE >>
    /\ kb_frames = << 1, 3 >>

\* C8: the audio file given to the encoder is the mixed file exactly when the music
\* file exists and the mix exited with 0, and the narration file otherwise; a failed
\* mix never ends build_video.
C8_AudioGivenToEncoder ==
    /\ EncoderLaunched =>
           /\ audio_path \in {"voiceover", "mixed"}
           /\ audio_path = "mixed" <=> (music = "present" /\ mix_rc = 0)
           /\ audio_path = "mixed" /\ proc = "running" => mixed_exists
           /\ voiceover_exists
    /\ music # "present" => mix_rc = -1
    /\ mix_rc \notin {-1, 0} =>
           /\ pc = "done" => EncoderLaunched
           /\ pc = "done" /\ write_error # "OSError" /\ returncode = 0 =>
                  result.kind = "return"

C8_Witness ==
    /\ pc = "done"
    /\ music = "present"
    /\ mix_rc = 1
    /\ audio_path = "voiceover"
    /\ result.kind = "return"

\* C9: on every frame written, the cues rendered are exactly those with
\* start <= t < end, each once, in the order of the cue list.
C9_CueRenderedIffActive ==
    \A k \in 1..Len(written) :
        LET f == written[k]
            act == {i \in 1..Len(captions) : Covers(i, f.idx)}
        IN  /\ {f.overlays[j] : j \in 1..Len(f.overlays)} = {captions[i].text : i \in act}
            /\ Len(f.overlays) = Cardinality(act)
            /\ \A i, j \in 1..Len(f.overlays) : i < j => f.overlays[i] < f.overlays[j]

C9_Witness ==
    /\ Len(captions) = 2
    /\ captions[1].start > captions[2].start
    /\ \E k \in 1..Len(written) : Len(written[k].overlays) = 2
    /\ \E k \in 1..Len(written) :
          /\ written[k].idx * 1000 = captions[1].end * VIDEO_FPS
          /\ written[k].overlays = << >>

\* C10: with an empty cue list, and at any frame time no cue covers, the frame written
\* is the composited frame as it was before the caption step.
C10_NoActiveCueLeavesFrame ==
    \A k \in 1..Len(written) :
        LET f == written[k]
        IN  (captions = << >> \/ \A i \in 1..Len(captions) : ~Covers(i, f.idx)) =>
                f = composited(f.idx, VIDEO_FPS, target_dur, n_scenes, effects)

C10_Witness ==
    /\ pc = "done"
    /\ captions # << >>
    /\ \E k \in 1..Len(written) :
          /\ \A i \in 1..Len(captions) : ~Covers(i, written[k].idx)
          /\ written[k] = composited(written[k].idx, VIDEO_FPS, target_dur, n_scenes, effects)
    /\ \E k \in 1..Len(written) : written[k].overlays # << >>

(***************************************************************************)
(* Properties of the geometry helpers, under SpecGeometry.                 *)
(***************************************************************************)
Returned(fn) == call.fn = fn /\ ret # << >>

\* C11: for each of the 8 effects and every progress in [0,1], on an image at least as
\* large as the viewport, the crop rectangle of _apply_ken_burns has 0 <= cx, 0 <= cy,
\* cw >= 1, ch >= 1, cx + cw <= image width and cy + ch <= image height, and the frame
\* returned has exactly the viewport size.
C11_CropWithinCanvas ==
    Returned("_apply_ken_burns") =>
        LET r == ret[1].crop
        IN  /\ 0 <= r[1] /\ 0 <= r[2]
            /\ r[3] >= 1 /\ r[4] >= 1
            /\ r[1] + r[3] <= call.img[1]
            /\ r[2] + r[4] <= call.img[2]
            /\ ret[1].size = call.viewport

\* A zoom on an image so wide that the scaled height truncates to 0 and is clamped to 1.
C11_Witness ==
    /\ Returned("_apply_ken_burns")
    /\ call.effect = "zoom_in"
    /\ call.progress = << ProgressDen, ProgressDen >>
    /\ effect_rect(call.img, call.effect, call.progress, call.viewport)[4] = 0
    /\ ret[1].crop[4] = 1
    /\ ret[1].size = call.viewport

\* An _apply_ken_burns call has returned on the canvas _resize_for_ken_burns derives.
DerivedCanvas ==
    call.fn = "_apply_ken_burns" /\ call.img = _resize_for_ken_burns(call.viewport)

Centred(size, img) == << (img[1] - size[1]) \div 2, (img[2] - size[2]) \div 2 >> \o size

\* 1 - p.
Reverse(p) == << p[2] - p[1], p[2] >>

\* zoom_in crops the whole canvas at progress 0 and the centred viewport at 1.
ZoomInEndpoints ==
    (Returned("_apply_ken_burns") /\ call.effect = "zoom_in") =>
        /\ call.progress[1] = 0 => ret[1].crop = << 0, 0 >> \o call.img
        /\ call.progress[1] = call.progress[2] =>
               ret[1].crop = Centred(call.viewport, call.img)

\* zoom_out at progress p crops what zoom_in crops at 1 - p.
ZoomOutIsReverse ==
    (Returned("_apply_ken_burns") /\ call.effect = "zoom_out") =>
        ret[1].crop =
            _apply_ken_burns(call.img, "zoom_in", Reverse(call.progress), call.viewport).crop

MultipleOf4(size) == size[1] % 4 = 0 /\ size[2] % 4 = 0

C13_SmoothstepShape ==
    Returned("_smoothstep") =>
        LET x == call.x
            y == ret[1]
        IN  /\ Leq(Zero, y) /\ Leq(y, One)
            /\ Same(x, Zero) => Same(y, Zero)
            /\ Same(x, One) => Same(y, One)
            /\ Same(x, Half) => Same(y, Half)
            /\ \A z \in EasingInputs :
                   (Leq(Zero, z) /\ Leq(z, x) /\ Leq(x, One)) => Leq(_smoothstep(z), y)

\* An input above 1, brought back to 1.
C13_Witness ==
    /\ Returned("_smoothstep")
    /\ ~Leq(call.x, One)
    /\ Same(ret[1], One)

(***************************************************************************)
(* Properties of the scene timeline.                                       *)
(***************************************************************************)
Frames == {written[k] : k \in 1..Len(written)}

\* scene_end - t of a written frame and CROSSFADE_DURATION, in the ticks of the run,
\* and whether the frame's scene has a successor.
Remaining(f) == (f.scene + 1) * target_dur * VIDEO_FPS - f.idx * 1000 * n_scenes

Window == CROSSFADE_DURATION * n_scenes * VIDEO_FPS

HasNext(f) == f.scene + 1 < n_scenes

\* The render ran through every frame and the encoder exited with 0.
Complete == pc = "done" /\ result.kind = "return" /\ Len(written) = total_frames

\* Frames are only ever appended, so every frame is the last frame of some state and
\* the frame before it is the one written before it: what holds of the last two frames
\* in every state holds of every frame and the frame that follows it.
HasFrame == written # << >>

Last == written[Len(written)]

HasPrev == Len(written) >= 2

Prev == written[Len(written) - 1]

\* C14: for every scene that has a next scene, the blend weight over the frames of
\* the scene is 0 at the start of the crossfade window (scene_end - t =
\* CROSSFADE_DURATION), never decreases as frame_idx grows, and is 1 at the scene
\* boundary (scene_end - t = 0); in between it lies strictly between 0 and 1.
C14_BlendWeightRises ==
    (HasFrame /\ HasNext(Last)) =>
        /\ Remaining(Last) >= 0
        /\ Remaining(Last) < Window => Last.blended
        /\ Remaining(Last) > Window => ~Last.blended
        /\ Remaining(Last) >= Window <=> Same(Last.alpha, Zero)
        /\ Remaining(Last) = 0 <=> Same(Last.alpha, One)
        /\ Leq(Zero, Last.alpha) /\ Leq(Last.alpha, One)
        /\ (HasPrev /\ Prev.scene = Last.scene) => Leq(Prev.alpha, Last.alpha)

\* The three-scene render of 10 s: frame 82 lies on the start of the first window with
\* weight 0, and the weight then rises over frames 83 to 99.
C14_Witness ==
    /\ Complete
    /\ n_scenes = 3
    /\ target_dur = 10000
    /\ Remaining(written[83]) = Window /\ Same(written[83].alpha, Zero)
    /\ written[84].blended /\ ~Same(written[84].alpha, Zero)
    /\ ~Leq(written[100].alpha, written[84].alpha)
    /\ written[100].scene = 0 /\ written[101].scene = 1

\* The scenes with at least one frame blended with the scene that follows, and the
\* scenes that are the active scene of at least one frame.
Windows == {f.scene : f \in {g \in Frames : g.blended}}

Active == {f.scene : f \in Frames}

SingleScene ==
    n_scenes = 1 =>
        /\ \A f \in Frames : ~f.blended /\ f.scene = 0 /\ f.effect = effects[1]
        /\ \A j, k \in 1..Len(written) :
               j <= k => Leq(written[j].progress, written[k].progress)

\* C15 as stated: in a complete render of N usable scenes exactly N - 1 crossfade
\* windows occur, every scene but the last having a frame blended with its successor;
\* a single-scene render has no blended frame and keeps scene 0 active with one
\* continuous motion.
C15_WindowsAreAllButLast ==
    (Complete /\ total_frames >= 1) =>
        /\ Windows = 0..(n_scenes - 2)
        /\ SingleScene

\* C15, amended: every scene but the last that is the active scene of some frame has a
\* frame blended with its successor and the last scene has none, so that N - 1
\* windows occur when every scene but the last is active in some frame, and fewer
\* when the narration is too short for that.
C15_WindowPerActiveScene ==
    Complete =>
        /\ Windows = Active \ {n_scenes - 1}
        /\ \A f \in Frames : f.blended => f.next = f.scene + 1
        /\ (0..(n_scenes - 2)) \subseteq Active => Cardinality(Windows) = n_scenes - 1
        /\ SingleScene

\* Three scenes and three frames: frames 1 and 2 are blended, scenes 0 and 1 with their
\* successors.
C15_Witness ==
    /\ Complete
    /\ n_scenes = 3
    /\ Windows = {0, 1}
    /\ \E f \in Frames : ~f.blended

\* The inputs of the three-image, ten-second render.
ScenarioA ==
    /\ VIDEO_FPS = 30
    /\ MAX_DURATION = 59
    /\ voiceover_ms = 10000
    /\ scene_images = << TRUE, TRUE, TRUE >>
    /\ music = "none"
    /\ srt = "none"

\* C16: three images, a 10 s narration, a 59 s cap and 30 frames per second, no
\* captions and no music: frame_count is 300, scenes 0, 1 and 2 are active for
\* frames 0-99, 100-199 and 200-299, and exactly 2 crossfade windows occur (frames
\* 83-99 and 183-199); all 300 frames are written unless a write fails.
C16_ScenarioA ==
    ScenarioA =>
        /\ EncoderLaunched => total_frames = 300 /\ n_scenes = 3
        /\ HasFrame =>
               /\ Last.scene = Last.idx \div 100
               /\ Last.blended <=> Last.idx \in (83..99) \cup (183..199)
               /\ Last.blended => Last.next = Last.scene + 1
               /\ Last.overlays = << >>
        /\ (AfterLoop /\ write_error = "none") =>
               /\ Len(written) = 300
               /\ Windows = {0, 1}
               /\ audio_path = "voiceover"

C16_Witness ==
    /\ ScenarioA
    /\ Complete
    /\ Len(written) = 300
    /\ written[100].scene = 0 /\ written[100].blended
    /\ written[101].scene = 1 /\ ~written[101].blended
    /\ written[300].scene = 2 /\ ~written[300].blended

\* C17: dur_per_scene is target_dur / n_scenes, and for every frame the active scene
\* index is floor(t / dur_per_scene) clamped to n_scenes - 1, lies in 0..n_scenes - 1 and
\* never decreases as frame_idx grows, and the scene progress is
\* (t - scene_start) / dur_per_scene and lies in [0,1].
C17_SceneIndexIsFloor ==
    HasFrame =>
        LET t == Last.idx * 1000 * n_scenes
            per_scene == target_dur * VIDEO_FPS
        IN  /\ Last.scene = Min(t \div per_scene, n_scenes - 1)
            /\ Last.scene \in 0..(n_scenes - 1)
            /\ HasPrev => Prev.scene <= Last.scene
            /\ Same(Last.progress, << t - Last.scene * per_scene, per_scene >>)
            /\ Leq(Zero, Last.progress) /\ Leq(Last.progress, One)

\* No effect before the assignment step, one per scene after it, and every written
\* frame rendered under its scene's effect.
AssignedBeforeRender ==
    /\ pc \in {"get_ffmpeg", "audio_duration", "visuals", "effects"} =>
           effects = << >> /\ written = << >> /\ proc = "none"
    /\ (VisualsPrepared /\ pc # "effects" /\ kb_frames # << >>) =>
           /\ Len(effects) = Len(kb_frames)
           /\ \A i \in 1..Len(effects) : \E e \in 1..Len(KB_EFFECTS) : effects[i] = KB_EFFECTS[e]
    /\ HasFrame =>
           /\ Last.effect = effects[Last.scene + 1]
           /\ Last.blended => Last.next_effect = effects[Last.next + 1]
           /\ (HasPrev /\ Prev.scene = Last.scene) => Prev.effect = Last.effect

\* C18: one effect is assigned to each usable visual before the first frame is
\* rendered, the effect list being as long as the scene list, and no assignment changes
\* during the render loop: every frame of a scene is rendered under the effect the
\* scene was given, as the current scene and as the next scene of a blend.
C18_EffectsFixedBeforeRender ==
    /\ []AssignedBeforeRender
    /\ [][pc # "effects" => effects' = effects]_vars

\* A complete render of three scenes under three different effects, the second one
\* seen first as the next scene of a blend.
C18_Witness ==
    /\ Complete
    /\ n_scenes = 3
    /\ Cardinality({effects[i] : i \in 1..3}) = 3
    /\ \E f \in Frames : f.scene = 0 /\ f.blended /\ f.next_effect = effects[2]
    /\ \E f \in Frames : f.scene = 1 /\ f.effect = effects[2]

\* C19: when no encoder binary is available build_video ends with a fatal error before
\* any frame work: no visual is loaded, no audio is mixed, no encoder is started and no
\* frame is rendered or written.
C19_NoEncoderFailsFirst ==
    ~ffmpeg_installed =>
        /\ pc \in {"get_ffmpeg", "done"}
        /\ pc = "done" => result = Raise("RuntimeError", "ffmpeg not found")
        /\ target_dur = 0
        /\ kb_frames = << >> /\ effects = << >> /\ captions = << >>
        /\ audio_path = "unset" /\ mix_rc = -1 /\ ~mixed_exists
        /\ proc = "none"
        /\ frame_idx = 0 /\ written = << >>

\* The call has ended, with usable images and music at hand and nothing done to them.
C19_Witness ==
    /\ ~ffmpeg_installed
    /\ pc = "done"
    /\ result.kind = "RuntimeError"
    /\ \E i \in 1..Len(scene_images) : scene_images[i]
    /\ music = "present"
    /\ voiceover_ms > 0
    /\ kb_frames = << >> /\ audio_path = "unset" /\ written = << >>

\* C20: no frame whose active scene is the last scene is blended with another scene,
\* and the next-scene index of every blend is a valid scene index, below n_scenes.
C20_LastSceneNeverBlended ==
    HasFrame =>
        /\ Last.scene = n_scenes - 1 => ~Last.blended
        /\ Last.blended =>
               /\ Last.next \in 0..(n_scenes - 1)
               /\ Last.next = Last.scene + 1
               /\ Last.next_effect = effects[Last.next + 1]

\* The last frame of a three-scene render: within 0.6 s of the end of the last scene,
\* and not blended, after frames of the scene before that were.
C20_Witness ==
    /\ Complete
    /\ n_scenes = 3
    /\ Last.scene = 2
    /\ Remaining(Last) < Window
    /\ ~Last.blended
    /\ \E f \in Frames : f.blended /\ f.next = 2

\* The denominators of the render loop: VIDEO_FPS (line 373), total_frames (376),
\* dur_per_scene (382, 384, 402) and CROSSFADE_DURATION (397).
Divisors == << VIDEO_FPS, total_frames, dur_per_scene(target_dur, VIDEO_FPS),
               crossfade_ticks(n_scenes, VIDEO_FPS) >>

\* C21: for every rendered frame, also of a scene shorter than the crossfade window,
\* the blend weight and the next scene's progress lie in [0,1], the remaining time of
\* the current scene used in a blend is strictly positive, and every divisor of the
\* render loop is positive.
C21_BlendWellDefined ==
    HasFrame =>
        /\ \A d \in 1..Len(Divisors) : Divisors[d] > 0
        /\ Last.blended =>
               /\ Leq(Zero, Last.alpha) /\ Leq(Last.alpha, One)
               /\ Leq(Zero, Last.next_progress) /\ Leq(Last.next_progress, One)
               /\ time_to_end_positive(Last.idx, Last.scene, VIDEO_FPS, target_dur, n_scenes)

\* The audio input handed to the encoder is a complete file: the narration, or the
\* mix written by a mixing process that has exited with code 0.
AudioComplete ==
    \/ audio_path = "voiceover" /\ voiceover_exists
    \/ audio_path = "mixed" /\ mixed_exists /\ mix_rc = 0

\* The step that launches the encoder: visuals prepared, every extraction and the
\* mix being over (both are calls that return when their process has exited).
Launch ==
    /\ pc = "popen"
    /\ kb_frames = prepared_visuals(scene_images, background_clips)
    /\ kb_frames # << >>
    /\ n_scenes = Len(kb_frames)
    /\ AudioComplete

\* C22: the encoder is launched only after visual preparation and audio mixing have
\* finished, with a complete audio file, and exactly once in a call that reaches
\* rendering: the process goes from absent to running at the launch step only, from
\* running to exited only, and is there whenever the render loop is.
C22_EncoderAfterPreparation ==
    /\ [][proc' # proc => \/ proc = "none" /\ proc' = "running" /\ Launch
                          \/ proc = "running" /\ proc' = "exited"]_vars
    /\ [](pc \in {"loop", "finally", "communicate", "check"} <=> proc # "none" /\ pc # "done")
    /\ [](proc = "none" => written = << >>)

\* The encoder running on frames extracted from clips, one extraction having failed,
\* and on mixed audio.
C22_Witness ==
    /\ proc = "running"
    /\ pc = "loop"
    /\ scene_images = << >>
    /\ Len(kb_frames) < Len(background_clips)
    /\ audio_path = "mixed"
    /\ written # << >>

(***************************************************************************)
(* The pan effects, under SpecGeometry.                                    *)
(***************************************************************************)
\* The crop of the call in hand under another effect or at another progress.
CropOf(effect, progress) ==
    _apply_ken_burns(call.img, effect, progress, call.viewport).crop

\* A pan along axis (1 horizontal, 2 vertical) whose offset rises with progress: the
\* offset is 0 at progress 0, the whole slack at progress 1, never less than at an
\* earlier progress, and the other axis stays at the centre.
Slides(effect, axis) ==
    LET slack == call.img[axis] - call.viewport[axis]
        other == 3 - axis
        crop == ret[1].crop
    IN  /\ << crop[3], crop[4] >> = call.viewport
        /\ crop[other] = (call.img[other] - call.viewport[other]) \div 2
        /\ call.progress[1] = 0 => crop[axis] = 0
        /\ call.progress[1] = call.progress[2] => crop[axis] = slack
        /\ \A q \in ProgressGrid :
               Leq(q, call.progress) => CropOf(effect, q)[axis] <= crop[axis]

\* C23: for the four pan effects the crop is viewport-sized at every progress;
\* pan_right's horizontal offset goes from 0 at progress 0 to canvas width - viewport
\* width at progress 1 and never decreases in between, pan_left's offset at progress p
\* is pan_right's at 1 - p, and pan_down and pan_up do the same on the vertical
\* offset, the other axis being held at the centre.
C23_PansSlideAcrossSlack ==
    Returned("_apply_ken_burns") =>
        /\ call.effect = "pan_right" => Slides("pan_right", 1)
        /\ call.effect = "pan_down" => Slides("pan_down", 2)
        /\ call.effect = "pan_left" => ret[1].crop = CropOf("pan_right", Reverse(call.progress))
        /\ call.effect = "pan_up" => ret[1].crop = CropOf("pan_down", Reverse(call.progress))

\* pan_left part of the way on the canvas of the production viewport: the offset is
\* strictly inside the slack of 270 pixels.
C23_Witness ==
    /\ Returned("_apply_ken_burns")
    /\ call.effect = "pan_left"
    /\ call.viewport = << 1080, 1920 >>
    /\ call.img = << 1350, 2400 >>
    /\ call.progress[1] = 1
    /\ ret[1].crop[1] > 135
    /\ ret[1].crop[1] < 270
    /\ ret[1].crop[2] = 240

(***************************************************************************)
(* The motion of a scene across its boundary, under SpecTimeline.          *)
(***************************************************************************)
\* C28: for every scene, the progress at which it is rendered, as the incoming scene
\* of the preceding crossfade and then as the active scene, never decreases as
\* frame_index increases: from one frame to the next the progress of the active scene
\* does not fall while the scene stays, that of the incoming scene does not fall
\* while the window lasts, and the scene that becomes active starts no lower than
\* the progress it had reached as the incoming scene.
C28_SceneProgressNeverDecreases ==
    HasPrev =>
        /\ Prev.scene = Last.scene => Leq(Prev.progress, Last.progress)
        /\ (Prev.blended /\ Last.blended /\ Prev.next = Last.next) =>
               Leq(Prev.next_progress, Last.next_progress)
        /\ (Prev.blended /\ Prev.next = Last.scene) =>
               Leq(Prev.next_progress, Last.progress)

\* The number of written frames of which s is the active scene.
FramesOf(s) == Cardinality({j \in 1..Len(written) : written[j].scene = s})

\* C29: in a complete render with frame_count >= N every scene is the active scene of
\* at least one frame, and the numbers of frames of any two scenes differ by at most
\* one.
C29_FramesSharedEvenly ==
    (Complete /\ total_frames >= n_scenes) =>
        \A s, r \in 0..(n_scenes - 1) :
            /\ FramesOf(s) >= 1
            /\ FramesOf(s) - FramesOf(r) <= 1

(***************************************************************************)
(* The encoder's pipes, under SpecPipes.                                   *)
(***************************************************************************)
\* C24: whatever the encoder emits on its stderr, the frame-writing loop and the
\* encoder never block on each other forever: build_video eventually returns or
\* raises.
C24_RenderCompletes == <>(pc = "done")

(***************************************************************************)
(* How build_video leaves the encoder and the audio files, under Spec.     *)
(***************************************************************************)
\* build_video has returned or raised after having launched the encoder.
ExitedAfterLaunch == pc = "done" /\ proc # "none"

\* C25: on every exit path after the encoder has been launched (normal completion,
\* early input close, non-zero exit, an exception raised while rendering or writing a
\* frame) the encoder's input stream is closed and the encoder has been waited for
\* when build_video returns or raises.
C25_ClosedAndWaitedOnExit ==
    ExitedAfterLaunch =>
        /\ stdin_closed
        /\ proc = "exited"
        /\ returncode # -1

\* C26: whenever build_video returns or raises, no mixed-audio file made by the mixer
\* is left behind: it is removed after a successful render, after an encoder failure
\* and after a failed mix.
C26_NoMixedFileLeft ==
    \* on the paths the claim names: the encoder has exited, with code 0 or not, after
    \* a mix that succeeded or failed
    (pc = "done" /\ proc = "exited") => ~mixed_exists

\* C27: build_video never deletes the narration file: the cleanup after the render
\* removes the audio file only when it is a mixed file distinct from the narration,
\* on every path, the narration-only fallback included.
C27_NarrationKept ==
    /\ [](voiceover_exists)
    /\ [][mixed_exists /\ ~mixed_exists' =>
              pc = "check" /\ returncode = 0 /\ audio_path = "mixed"]_vars

\* The fallback: the mix failed, the narration alone was encoded, build_video has
\* returned and the narration is still there.
C27_Witness ==
    /\ pc = "done"
    /\ result.kind = "return"
    /\ music = "present"
    /\ mix_rc = 1
    /\ audio_path = "voiceover"
    /\ voiceover_exists

\* No input was supplied, or every asset of the kind supplied failed.
NoUsableVisual == prepared_visuals(scene_images, background_clips) = << >>

\* C30: when no usable visual remains, build_video raises its fatal error before audio
\* mixing is invoked and before the encoder is launched: on that path there is never
\* an encoder process, a mix or a mixed-audio file, nor a frame written towards an
\* output file, and build_video ends with the ValueError of the visual preparation
\* (or, with no encoder installed, with the RuntimeError that precedes it).
C30_NoVisualFailsBeforeAudio ==
    NoUsableVisual =>
        /\ proc = "none"
        /\ mix_rc = -1
        /\ audio_path = "unset"
        /\ ~mixed_exists
        /\ written = << >>
        /\ pc \in {"get_ffmpeg", "audio_duration", "visuals", "done"}
        /\ pc = "done" =>
               result.kind = IF ffmpeg_installed THEN "ValueError" ELSE "RuntimeError"

\* Every clip failed to yield a frame, music was supplied, and build_video has raised.
C30_Witness ==
    /\ pc = "done"
    /\ result = Raise("ValueError", "Failed to prepare any visual frames")
    /\ Len(background_clips) >= 2
    /\ music = "present"
    /\ NoUsableVisual

====
